---- MODULE Spec2Model ----
(***************************************************************************)
(* Model of gitma_canspin/annotation_collection.py: the AnnotationCollection *)
(* aggregate, its normalizer (ac_to_df / split_property_dict_to_column),     *)
(* the bulk property mutations, the CSV export / import, the tag-path       *)
(* filter, the git calls and the module-level token counting.                *)
(*                                                                           *)
(* Strings the code inspects character by character (property and column     *)
(* names, property values, CSV fields, texts) are sequences of tokens: a     *)
(* token is one character, or the indivisible chunk "prop:" / "nan".  Names  *)
(* the code only compares for equality (uuids, tag names, file names) are    *)
(* TLA+ strings.                                                             *)
(***************************************************************************)
EXTENDS Integers, Sequences, FiniteSets, TLC

VARIABLES
    header_exists,      \* <directory>/header.json is a file
    annotations_isdir,  \* <directory>/annotations/ is a directory
    page_files,         \* os.listdir order: sequence of [name, records]
    obj,                \* "none" | "constructed" | "failed"
    annotations,        \* self.annotations
    df,                 \* self.df
    csv_file,           \* the bulk-edit CSV file on disk (NoFile when absent)
    csv_origin,         \* how csv_file came about: the export's arguments, the
                        \* annotations it was exported from, whether it was edited
    result,             \* outcome of the last call: return value or raised error
    last,               \* the last call and its arguments
    pre_annotations,    \* self.annotations when the last call started
    pre_df,             \* self.df when the last call started
    cwd,                \* os.getcwd()
    commands,           \* the external commands run so far, each with its cwd
    nops                \* number of calls made on the constructed object

vars == << header_exists, annotations_isdir, page_files, obj, annotations, df,
           csv_file, csv_origin, result, last, pre_annotations, pre_df, cwd,
           commands, nops >>

----------------------------------------------------------------------------
(* Bounds of the model *)

MaxAnn == 3     \* records in the store, normalizer specification
MaxRecs == 2    \* records in the store, lifecycle specifications
MaxOps == 2     \* calls made on one constructed collection




----------------------------------------------------------------------------
(* Strings *)

\* Python: tok in s
Contains(s, tok) == \E i \in 1..Len(s) : s[i] = tok

\* Python: s.replace(tok, '')
Replace(s, tok) == SelectSeq(s, LAMBDA t : t # tok)

RECURSIVE Join(_, _)
\* Python: sep.join(values)
Join(values, sep) ==
    IF values = <<>> THEN <<>>
    ELSE IF Len(values) = 1 THEN values[1]
    ELSE values[1] \o <<sep>> \o Join(Tail(values), sep)

RECURSIVE Split(_, _)
\* Python: s.split(sep); ''.split(',') is ['']
Split(s, sep) ==
    IF ~Contains(s, sep) THEN << s >>
    ELSE LET i == CHOOSE k \in 1..Len(s) :
                      s[k] = sep /\ \A j \in 1..(k - 1) : s[j] # sep
         IN  << SubSeq(s, 1, i - 1) >> \o Split(SubSeq(s, i + 1, Len(s)), sep)

RECURSIVE CollapseSpaces(_)
\* re.sub(' +', ' ', s)
CollapseSpaces(s) ==
    IF Len(s) < 2 THEN s
    ELSE IF s[1] = " " /\ s[2] = " " THEN CollapseSpaces(Tail(s))
    ELSE << s[1] >> \o CollapseSpaces(Tail(s))

clean_text_in_ac_df(annotation) ==
    CollapseSpaces([i \in 1..Len(annotation) |->
                        IF annotation[i] = "\n" THEN " " ELSE annotation[i]])

----------------------------------------------------------------------------
(* Data universe *)

PropX == << "x" >>
PropY == << "y" >>
PropP == << "prop:", "p" >>         \* a property whose own name contains 'prop:'
PropNames == { PropX, PropY }       \* the names of the lifecycle specifications
NormNames == { PropX, PropP }       \* the names of the normalizer specification
PropOrder == << PropX, PropY, PropP >>  \* iteration order of dict keys

Tags == { "T1", "T2" }
full_path(tag) == << "/", "S", "/", tag >>

NAN == << "nan" >>                  \* the string 'nan'

text_title == << "D", "o", "c" >>
ac_name == << "A", "C" >>

\* Keys of a property mapping, in dict iteration order
Keys(properties) == SelectSeq(PropOrder, LAMBDA p : p \in DOMAIN properties)

EmptyProps == [p \in {} |-> <<>>]

\* the uuid of the i-th record of the store; no record has Uuid(0)
Uuid(i) == << "u", i >>

----------------------------------------------------------------------------
(* Annotation entities (gitma_canspin.annotation, an external collaborator) *)

\* One raw annotation record of a partition file
RawRecord(uuid, tag, start, props) ==
    [ uuid |-> uuid, author |-> << "A", "n" >>, tag |-> tag, properties |-> props,
      pretext |-> << "l", "\n" >>, text |-> << "a", " ", " ", "b", "\n", "c" >>,
      posttext |-> << " ", " ", "r" >>,
      start_point |-> start, end_point |-> start + 1, date |-> << "d" >> ]

\* Annotation(annotation_data, page_file_path, plain_text, project, context)
Annotation(annotation_data, page_file_path) ==
    [ uuid |-> annotation_data.uuid,
      author |-> annotation_data.author,
      tag |-> [ name |-> annotation_data.tag,
                full_path |-> full_path(annotation_data.tag) ],
      properties |-> annotation_data.properties,
      pretext |-> annotation_data.pretext,
      text |-> annotation_data.text,
      posttext |-> annotation_data.posttext,
      start_point |-> annotation_data.start_point,
      end_point |-> annotation_data.end_point,
      date |-> annotation_data.date,
      page_file_path |-> page_file_path ]

\* Annotation.__lt__: the comparison sorted() uses
annotation_lt(a, b) == a.start_point < b.start_point

RECURSIVE InsertSorted(_, _)
InsertSorted(sorted_list, a) ==
    IF sorted_list = <<>> THEN << a >>
    ELSE IF annotation_lt(a, Head(sorted_list)) THEN << a >> \o sorted_list
    ELSE << Head(sorted_list) >> \o InsertSorted(Tail(sorted_list), a)

RECURSIVE sorted(_)
\* Python sorted(): stable, uses only __lt__
sorted(lst) ==
    IF lst = <<>> THEN <<>>
    ELSE InsertSorted(sorted(SubSeq(lst, 1, Len(lst) - 1)), lst[Len(lst)])

RECURSIVE load_annotations(_)
\* one Annotation per record, files in os.listdir order, records in file order
load_annotations(files) ==
    IF files = <<>> THEN <<>>
    ELSE [ i \in 1..Len(Head(files).records) |->
              Annotation(Head(files).records[i], Head(files).name) ]
         \o load_annotations(Tail(files))

----------------------------------------------------------------------------
(* Tables (pandas.DataFrame): ordered columns, each a list of nrows cells *)

Col(name) == << name >>             \* a fixed column name
PropCol(prop) == << "prop:" >> \o prop  \* f'prop:{prop}'
IsPropCol(item) == Contains(item, "prop:")  \* 'prop:' in item

df_columns ==
    << Col("document"), Col("annotation collection"), Col("annotator"),
       Col("tag"), Col("tag_path"), Col("properties"), Col("left_context"),
       Col("annotation"), Col("right_context"), Col("start_point"),
       Col("end_point"), Col("date") >>

Range(s) == { s[i] : i \in 1..Len(s) }

\* pd.DataFrame(columns=cols): no rows
EmptyFrame(cols) ==
    [ columns |-> cols, nrows |-> 0, data |-> [ c \in Range(cols) |-> <<>> ] ]

Row(frame, i) == [ c \in Range(frame.columns) |-> frame.data[c][i] ]

\* the tuple ac_to_df builds for one annotation, keyed by df_columns
BaseCell(a, c) ==
    CASE c = Col("document") -> text_title
      [] c = Col("annotation collection") -> ac_name
      [] c = Col("annotator") -> a.author
      [] c = Col("tag") -> a.tag.name
      [] c = Col("tag_path") -> a.tag.full_path
      [] c = Col("properties") -> a.properties
      [] c = Col("left_context") -> a.pretext
      [] c = Col("annotation") -> a.text
      [] c = Col("right_context") -> a.posttext
      [] c = Col("start_point") -> a.start_point
      [] c = Col("end_point") -> a.end_point
      [] c = Col("date") -> a.date

BaseFrame(ans) ==
    [ columns |-> df_columns, nrows |-> Len(ans),
      data |-> [ c \in Range(df_columns) |->
                    [ i \in 1..Len(ans) |-> BaseCell(ans[i], c) ] ] ]

----------------------------------------------------------------------------
(* The normalizer *)

\* properties_dict = {}: keys in insertion order, and the list of each key
EmptyDict == [ keys |-> <<>>, vals |-> <<>> ]

\* n * [x]
Repeat(n, x) == [ i \in 1..n |-> x ]

\* SplitKey backfilling earlier rows with [] instead of ['nan']
SplitKey_emptyfill(properties_dict, index, item, key) ==
    IF key \notin Range(properties_dict.keys)
    THEN [ keys |-> Append(properties_dict.keys, key),
           vals |-> [ k \in Range(properties_dict.keys) \cup { key } |->
                        IF k = key
                        THEN Append(Repeat(index, <<>>), item[key])
                        ELSE properties_dict.vals[k] ] ]
    ELSE [ keys |-> properties_dict.keys,
           vals |-> [ properties_dict.vals EXCEPT ![key] = Append(@, item[key]) ] ]

\* body of "for key in item" for one key
SplitKey(properties_dict, index, item, key) ==
    IF key \notin Range(properties_dict.keys)
    THEN [ keys |-> Append(properties_dict.keys, key),
           vals |-> [ k \in Range(properties_dict.keys) \cup { key } |->
                        IF k = key
                        THEN Append(Repeat(index, << NAN >>), item[key])
                        ELSE properties_dict.vals[k] ] ]
    ELSE [ keys |-> properties_dict.keys,
           vals |-> [ properties_dict.vals EXCEPT ![key] = Append(@, item[key]) ] ]

RECURSIVE SplitKeys(_, _, _, _)
\* for key in item: ...
SplitKeys(properties_dict, index, item, keys) ==
    IF keys = <<>> THEN properties_dict
    ELSE SplitKeys(SplitKey(properties_dict, index, item, Head(keys)),
                   index, item, Tail(keys))

\* SplitPad without the padding of absent properties
SplitPad_skip(properties_dict, item) == properties_dict

\* for prop in properties_dict: if prop not in item: append(['nan'])
SplitPad(properties_dict, item) ==
    [ keys |-> properties_dict.keys,
      vals |-> [ prop \in Range(properties_dict.keys) |->
                    IF prop \notin DOMAIN item
                    THEN Append(properties_dict.vals[prop], << NAN >>)
                    ELSE properties_dict.vals[prop] ] ]

\* one iteration of "for index, item in enumerate(ac_df['properties'])"
SplitBody(properties_dict, index, item) ==
    SplitPad(SplitKeys(properties_dict, index, item, Keys(item)), item)

RECURSIVE SplitLoop(_, _)
\* properties_dict after the first n items (indices 0 .. n-1) are processed
SplitLoop(items, n) ==
    IF n = 0 THEN EmptyDict
    ELSE SplitBody(SplitLoop(items, n - 1), n - 1, items[n])

\* what a raising call leaves in place of its value
Raise(exception, message) == [ raised |-> exception, message |-> message ]
IsRaised(v) == "raised" \in DOMAIN v

\* ac_df[name] = values: pandas refuses a list whose length is not the row count
SetColumn(frame, name, values) ==
    IF IsRaised(frame) THEN frame
    ELSE IF Len(values) # frame.nrows
    THEN Raise("ValueError", << "Length of values does not match length of index" >>)
    ELSE [ columns |-> IF name \in Range(frame.columns) THEN frame.columns
                       ELSE Append(frame.columns, name),
           nrows |-> frame.nrows,
           data |-> [ c \in Range(frame.columns) \cup { name } |->
                        IF c = name THEN values ELSE frame.data[c] ] ]

\* frame.drop(columns=name)
DropColumn(frame, name) ==
    IF IsRaised(frame) THEN frame
    ELSE [ columns |-> SelectSeq(frame.columns, LAMBDA c : c # name),
           nrows |-> frame.nrows,
           data |-> [ c \in Range(frame.columns) \ { name } |-> frame.data[c] ] ]

RECURSIVE SetPropColumns(_, _, _)
\* for prop in properties_dict: ac_df[f'prop:{prop}'] = properties_dict[prop]
SetPropColumns(frame, properties_dict, keys) ==
    IF keys = <<>> THEN frame
    ELSE SetPropColumns(
             SetColumn(frame, PropCol(Head(keys)), properties_dict.vals[Head(keys)]),
             properties_dict, Tail(keys))

split_property_dict_to_column(ac_df) ==
    LET properties_dict == SplitLoop(ac_df.data[Col("properties")], ac_df.nrows)
    IN  DropColumn(SetPropColumns(ac_df, properties_dict, properties_dict.keys),
                   Col("properties"))

\* frame[name] = frame[name].apply(clean_text_in_ac_df)
CleanColumn(frame, name) ==
    IF IsRaised(frame) THEN frame
    ELSE [ frame EXCEPT !.data[name] =
             [ i \in 1..Len(@) |-> clean_text_in_ac_df(@[i]) ] ]

ac_to_df(ans) ==
    CleanColumn(CleanColumn(CleanColumn(
        split_property_dict_to_column(BaseFrame(ans)),
        Col("left_context")), Col("annotation")), Col("right_context"))

----------------------------------------------------------------------------
(* Construction *)

\* the directory the process starts in
start_directory == "/work"
\* catma_project.projects_directory
projects_directory == "/projects/"

\* self.directory = f'{catma_project.uuid}/collections/{self.uuid}/'
directory == "P/collections/AC/"

\* the message without the path
NotFoundMessage_nopath ==
    << "The annotation collection could not be found",
       "\n", "--> Make sure the CATMA project clone worked properly." >>

NotFoundMessage ==
    << "The annotation collection at this path could not be found: ", directory,
       "\n", "--> Make sure the CATMA project clone worked properly." >>

Unset == [ columns |-> <<>>, nrows |-> 0, data |-> <<>> ]
NoFile == [ exists |-> FALSE ]
NoOrigin == [ exported |-> FALSE ]
NoResult == [ returned |-> "nothing" ]
Return(v) == [ returned |-> v ]

\* AnnotationCollection.__init__
AnnotationCollection ==
    /\ obj = "none"
    /\ last' = [ op |-> "__init__" ]
    /\ pre_annotations' = annotations
    /\ pre_df' = df
    /\ IF ~header_exists
       THEN /\ obj' = "failed"
            /\ result' = Raise("FileNotFoundError", NotFoundMessage)
            /\ UNCHANGED << annotations, df >>
       ELSE IF annotations_isdir
       THEN LET ans == sorted(load_annotations(page_files))
                frame == ac_to_df(ans)
            IN  IF IsRaised(frame)
                THEN /\ obj' = "failed"
                     /\ result' = frame
                     /\ annotations' = ans
                     /\ UNCHANGED df
                ELSE /\ obj' = "constructed"
                     /\ result' = NoResult
                     /\ annotations' = ans
                     /\ df' = frame
       ELSE /\ obj' = "constructed"
            /\ result' = NoResult
            /\ annotations' = <<>>
            /\ df' = EmptyFrame(df_columns)
    /\ UNCHANGED << header_exists, annotations_isdir, page_files, csv_file,
                    csv_origin, cwd, commands, nops >>

----------------------------------------------------------------------------
(* The mutation surface of an Annotation (gitma_canspin.annotation) *)

Put(properties, prop, value) ==
    [ p \in DOMAIN properties \cup { prop } |->
        IF p = prop THEN value ELSE properties[p] ]

Remove(properties, prop) ==
    [ p \in DOMAIN properties \ { prop } |-> properties[p] ]

\* Annotation.set_property_values(tag, prop, value)
set_property_values(an, tag, prop, value) ==
    IF an.tag.name = tag
    THEN [ an EXCEPT !.properties = Put(@, prop, value) ]
    ELSE an

\* Annotation.modify_property_value(tag, prop, old_value, new_value)
modify_property_value(an, tag, prop, old_value, new_value) ==
    IF an.tag.name = tag /\ prop \in DOMAIN an.properties
    THEN [ an EXCEPT !.properties[prop] =
             [ i \in 1..Len(@) |-> IF @[i] = old_value THEN new_value ELSE @[i] ] ]
    ELSE an

\* Annotation.delete_property(tag, prop)
delete_property(an, tag, prop) ==
    IF an.tag.name = tag
    THEN [ an EXCEPT !.properties = Remove(@, prop) ]
    ELSE an

----------------------------------------------------------------------------
(* Methods of the collection: self is [annotations, df] *)

Self == [ annotations |-> annotations, df |-> df ]

\* annotate_properties that also rebuilds the table
annotate_properties_resync(self, tag, prop, value) ==
    LET ans == [ i \in 1..Len(self.annotations) |->
                   set_property_values(self.annotations[i], tag, prop, value) ]
    IN  [ annotations |-> ans, df |-> ac_to_df(ans) ]

annotate_properties(self, tag, prop, value) ==
    [ self EXCEPT !.annotations =
        [ i \in 1..Len(@) |-> set_property_values(@[i], tag, prop, value) ] ]

\* rename_property_value that stops after the first annotation
rename_property_value_first(self, tag, prop, old_value, new_value) ==
    [ self EXCEPT !.annotations =
        [ i \in 1..Len(@) |->
            IF i = 1
            THEN modify_property_value(@[i], tag, prop, old_value, new_value)
            ELSE @[i] ] ]

rename_property_value(self, tag, prop, old_value, new_value) ==
    [ self EXCEPT !.annotations =
        [ i \in 1..Len(@) |->
            modify_property_value(@[i], tag, prop, old_value, new_value) ] ]

delete_properties(self, tag, prop) ==
    [ self EXCEPT !.annotations =
        [ i \in 1..Len(@) |-> delete_property(@[i], tag, prop) ] ]

RECURSIVE DuplicatedIndex(_, _, _)
\* for each row from i on, in order, one (row, value position) pair per value
DuplicatedIndex(ac_df, property_col, i) ==
    IF i > ac_df.nrows THEN <<>>
    ELSE [ k \in 1..Len(ac_df.data[property_col][i]) |-> << i, k >> ]
         \o DuplicatedIndex(ac_df, property_col, i + 1)

\* gitma_canspin._vizualize.duplicate_rows(ac_df, property_col)
duplicate_rows(ac_df, property_col) ==
    IF property_col \notin Range(ac_df.columns)
    THEN Raise("KeyError", << property_col >>)
    ELSE LET index == DuplicatedIndex(ac_df, property_col, 1)
         IN  [ columns |-> ac_df.columns,
               nrows |-> Len(index),
               data |-> [ c \in Range(ac_df.columns) |->
                            [ j \in 1..Len(index) |->
                                IF c = property_col
                                THEN ac_df.data[c][index[j][1]][index[j][2]]
                                ELSE ac_df.data[c][index[j][1]] ] ] ]

\* PropColumnNames without the 'prop:' in item filter
PropColumnNames_all(frame) ==
    [ i \in 1..Len(frame.columns) |-> Replace(frame.columns[i], "prop:") ]

\* [item.replace('prop:', '') for item in self.df.columns if 'prop:' in item]
PropColumnNames(frame) ==
    LET cols == SelectSeq(frame.columns, IsPropCol)
    IN  [ i \in 1..Len(cols) |-> Replace(cols[i], "prop:") ]

\* duplicate_by_prop that keeps the duplicated table as self.df
duplicate_by_prop_assign(self, prop) ==
    LET dup == duplicate_rows(self.df, prop)
    IN  IF IsRaised(dup)
        THEN [ self |-> self,
               result |-> [ raised |-> "ValueError",
                            message |-> << "Given Property doesn't exist. Choose one of these: " >>,
                            prop_cols |-> PropColumnNames(self.df) ] ]
        ELSE [ self |-> [ self EXCEPT !.df = dup ], result |-> Return(dup) ]

duplicate_by_prop(self, prop) ==
    LET dup == duplicate_rows(self.df, prop)
    IN  IF IsRaised(dup)
        THEN [ self |-> self,
               result |-> [ raised |-> "ValueError",
                            message |-> << "Given Property doesn't exist. Choose one of these: " >>,
                            prop_cols |-> PropColumnNames(self.df) ] ]
        ELSE [ self |-> self, result |-> Return(dup) ]

----------------------------------------------------------------------------
(* Bulk-edit CSV *)

ALL == << "all" >>                  \* the string 'all'
AllTags == [ all |-> TRUE, names |-> {} ]       \* tags='all'
TagList(names) == [ all |-> FALSE, names |-> names ]

\* the row write_annotation_csv appends for one property of one annotation
CsvRow(an, prop, values) ==
    [ id |-> an.uuid, annotation_collection |-> ac_name, tag |-> an.tag.name,
      text |-> clean_text_in_ac_df(an.text), property |-> prop, values |-> values ]

\* the rows of one annotation: for prop in an.properties: if prop in properties
RowsOf(an, properties, only_missing_prop_values) ==
    LET props == SelectSeq(Keys(an.properties),
                           LAMBDA prop :
                               /\ prop \in Range(properties)
                               /\ only_missing_prop_values =>
                                      Len(an.properties[prop]) < 1)
    IN  [ k \in 1..Len(props) |->
            CsvRow(an, props[k],
                   IF only_missing_prop_values THEN <<>>
                   ELSE Join(an.properties[props[k]], ",")) ]

RECURSIVE annotation_output(_, _, _)
annotation_output(ans, properties, only_missing_prop_values) ==
    IF ans = <<>> THEN <<>>
    ELSE RowsOf(Head(ans), properties, only_missing_prop_values)
         \o annotation_output(Tail(ans), properties, only_missing_prop_values)

CsvColumns == << "id", "annotation_collection", "tag", "text", "property", "values" >>

\* pd.DataFrame(rows).to_csv(...): no row, no column
to_csv(rows) ==
    [ exists |-> TRUE,
      columns |-> IF rows = <<>> THEN <<>> ELSE CsvColumns,
      rows |-> rows ]

\* the file write_annotation_csv leaves on disk
write_annotation_csv(self, tags, property, only_missing_prop_values) ==
    LET ans == IF tags.all THEN self.annotations
               ELSE SelectSeq(self.annotations,
                              LAMBDA an : an.tag.name \in tags.names)
        properties == IF property = ALL THEN PropColumnNames(self.df)
                      ELSE << property >>
    IN  to_csv(annotation_output(ans, properties, only_missing_prop_values))

\* pandas.read_csv: a field it takes for a missing value
IsNA(field) == field = <<>> \/ field = << "NA" >>

\* pandas.read_csv: a field it takes for a number
IsNumeric(field) == field # <<>> /\ \A i \in 1..Len(field) : field[i] = "1"

\* pandas.read_csv: the 'values' column keeps strings only when some field of
\* it is neither missing nor a number
ValuesAreText(rows) ==
    \E i \in 1..Len(rows) : ~IsNA(rows[i].values) /\ ~IsNumeric(rows[i].values)

\* isinstance(row['values'], str) for row i of pd.read_csv(filename, sep=";")
IsStr(rows, i) == ValuesAreText(rows) /\ ~IsNA(rows[i].values)

\* an_dict[uuid].set_property_values(...): the annotation objects are shared
UpdateByUuid(ans, uuid, tag, prop, value) ==
    [ i \in 1..Len(ans) |->
        IF ans[i].uuid = uuid
        THEN set_property_values(ans[i], tag, prop, value)
        ELSE ans[i] ]

RECURSIVE ReadRows(_, _, _)
\* for _, row in annotation_table.iterrows(): from row i on
ReadRows(state, rows, i) ==
    IF i > Len(rows) THEN state
    ELSE IF IsStr(rows, i)
    THEN IF \E k \in 1..Len(state.annotations) :
                state.annotations[k].uuid = rows[i].id
         THEN ReadRows(
                  [ state EXCEPT
                      !.annotations = UpdateByUuid(@, rows[i].id, rows[i].tag,
                                          rows[i].property,
                                          Split(rows[i].values, ",")),
                      !.annotation_counter = @ + 1 ],
                  rows, i + 1)
         ELSE ReadRows([ state EXCEPT !.missed_annotation_counter = @ + 1 ],
                       rows, i + 1)
    ELSE ReadRows([ state EXCEPT !.missed_annotation_counter = @ + 1 ],
                  rows, i + 1)

\* what one subprocess.run(argv) does: the process ends with an exit status,
\* or it cannot be started and subprocess.run raises (git is not installed)
RunOutcomes == { "exit 0", "exit 1", "raises" }

\* the surroundings of a call: the outcome of each subprocess.run in turn, and
\* whether Annotation.set_property_values can store an update or raises OSError
Environments ==
    [ run : [ 1..3 -> RunOutcomes ], update : { "stored", "raises" } ]

\* git is installed, every command succeeds, every update is stored
Healthy == [ run |-> [ k \in 1..3 |-> "exit 0" ], update |-> "stored" ]

\* the first subprocess.run that raises (0 when none does)
FirstRaise(outcomes) ==
    IF \E k \in 1..3 : outcomes[k] = "raises"
    THEN CHOOSE k \in 1..3 :
             outcomes[k] = "raises" /\ \A j \in 1..(k - 1) : outcomes[j] # "raises"
    ELSE 0

\* subprocess.run(cmd) for each cmd in turn, no check of the exit status: the
\* commands invoked, each with its working directory and outcome
RunCommands(cmds, outcomes) ==
    LET stop == FirstRaise(outcomes)
        n == IF stop = 0 THEN Len(cmds) ELSE stop
    IN  [ invoked |-> [ k \in 1..n |-> [ argv |-> cmds[k].argv,
                                         cwd |-> cmds[k].cwd,
                                         outcome |-> outcomes[k] ] ],
          raised |-> stop # 0 ]

GitCommands(where) ==
    << [ argv |-> << "git", "add", "." >>, cwd |-> where ],
       [ argv |-> << "git", "commit", "-m", "new property annotations" >>,
         cwd |-> where ],
       [ argv |-> << "git", "push", "origin", "HEAD:master" >>, cwd |-> where ] >>

\* read_annotation_csv(filename, push_to_gitlab) started in directory start
read_annotation_csv(self, file, push_to_gitlab, start, env) ==
    IF ~file.exists
    THEN [ self |-> self, cwd |-> start, commands |-> <<>>,
           result |-> Raise("FileNotFoundError", << "PropertyAnnotationTable.csv" >>) ]
    ELSE IF file.columns = <<>>
    THEN [ self |-> self, cwd |-> start, commands |-> <<>>,
           result |-> Raise("EmptyDataError", << "No columns to parse from file" >>) ]
    ELSE IF /\ env.update = "raises"
            /\ \E i \in 1..Len(file.rows) :
                  /\ IsStr(file.rows, i)
                  /\ \E k \in 1..Len(self.annotations) :
                        self.annotations[k].uuid = file.rows[i].id
    THEN \* the first update raises inside the loop: only KeyError is caught
         [ self |-> self, cwd |-> projects_directory, commands |-> <<>>,
           result |-> Raise("OSError", << "page file" >>) ]
    ELSE LET done == ReadRows([ annotations |-> self.annotations,
                                annotation_counter |-> 0,
                                missed_annotation_counter |-> 0 ],
                              file.rows, 1)
             run == IF push_to_gitlab
                    THEN RunCommands(GitCommands(projects_directory \o directory),
                                     env.run)
                    ELSE [ invoked |-> <<>>, raised |-> FALSE ]
         IN  [ self |-> [ self EXCEPT !.annotations = done.annotations ],
               cwd |-> IF run.raised THEN projects_directory \o directory
                       ELSE start,
               commands |-> run.invoked,
               result |-> IF run.raised
                          THEN Raise("FileNotFoundError", << "git" >>)
                          ELSE [ returned |-> "nothing",
                                 annotation_counter |-> done.annotation_counter,
                                 missed_annotation_counter |->
                                     done.missed_annotation_counter ] ]

----------------------------------------------------------------------------
(* Calls on a constructed collection *)

fs == << header_exists, annotations_isdir, page_files >>

\* a call on the collection: the model stops after MaxOps of them
Call(op) ==
    /\ obj = "constructed"
    /\ UNCHANGED obj
    /\ nops < MaxOps
    /\ nops' = nops + 1
    /\ last' = op
    /\ pre_annotations' = annotations
    /\ pre_df' = df

AnnotateValues == { <<>>, << << "c" >> >> }
RenameOld == { << "a" >>, << "b" >> }
RenameNew == { << "c" >>, << "a" >> }
DuplicateArgs == { PropCol(PropX), PropCol(PropY), PropX, PropCol(<< "z" >>) }
ExportTags == { AllTags, TagList({ "T1" }) }
ExportProperties == { ALL, PropX }
EditFields == { <<>>, << "c" >>, << "1" >>, << "NA" >>, << "c", ",", "d" >> }

AnnotateProperties ==
    \E tag \in Tags, prop \in PropNames, value \in AnnotateValues :
        /\ Call([ op |-> "annotate_properties", tag |-> tag, prop |-> prop,
                  value |-> value ])
        /\ annotations' = annotate_properties(Self, tag, prop, value).annotations
        /\ df' = annotate_properties(Self, tag, prop, value).df
        /\ result' = NoResult
        /\ UNCHANGED << fs, csv_file, csv_origin, cwd, commands >>

RenamePropertyValue ==
    \E tag \in Tags, prop \in PropNames,
       old_value \in RenameOld, new_value \in RenameNew :
        /\ Call([ op |-> "rename_property_value", tag |-> tag, prop |-> prop,
                  old_value |-> old_value, new_value |-> new_value ])
        /\ annotations' =
               rename_property_value(Self, tag, prop, old_value, new_value).annotations
        /\ df' = rename_property_value(Self, tag, prop, old_value, new_value).df
        /\ result' = NoResult
        /\ UNCHANGED << fs, csv_file, csv_origin, cwd, commands >>

DeleteProperties ==
    \E tag \in Tags, prop \in PropNames :
        /\ Call([ op |-> "delete_properties", tag |-> tag, prop |-> prop ])
        /\ annotations' = delete_properties(Self, tag, prop).annotations
        /\ df' = delete_properties(Self, tag, prop).df
        /\ result' = NoResult
        /\ UNCHANGED << fs, csv_file, csv_origin, cwd, commands >>

DuplicateByProp ==
    \E prop \in DuplicateArgs :
        /\ Call([ op |-> "duplicate_by_prop", prop |-> prop ])
        /\ annotations' = duplicate_by_prop(Self, prop).self.annotations
        /\ df' = duplicate_by_prop(Self, prop).self.df
        /\ result' = duplicate_by_prop(Self, prop).result
        /\ UNCHANGED << fs, csv_file, csv_origin, cwd, commands >>

WriteAnnotationCsv ==
    \E tags \in ExportTags, property \in ExportProperties,
       only_missing_prop_values \in BOOLEAN :
        /\ Call([ op |-> "write_annotation_csv", tags |-> tags,
                  property |-> property,
                  only_missing_prop_values |-> only_missing_prop_values ])
        /\ csv_file' = write_annotation_csv(Self, tags, property,
                                            only_missing_prop_values)
        /\ csv_origin' = [ exported |-> TRUE, tags |-> tags, property |-> property,
                           only_missing_prop_values |-> only_missing_prop_values,
                           annotations |-> annotations, edited |-> FALSE ]
        /\ result' = NoResult
        /\ UNCHANGED << fs, annotations, df, cwd, commands >>

\* the user fills in the exported table before the import: one field of one row
EditCsv ==
    /\ last.op = "write_annotation_csv"
    /\ \E i \in 1..Len(csv_file.rows) :
          \/ \E field \in EditFields :
                csv_file' = [ csv_file EXCEPT !.rows[i].values = field ]
          \/ csv_file' = [ csv_file EXCEPT !.rows[i].id = Uuid(0) ]
    /\ csv_origin' = [ csv_origin EXCEPT !.edited = TRUE ]
    /\ last' = [ op |-> "edit" ]
    /\ UNCHANGED << fs, obj, annotations, df, result, pre_annotations, pre_df,
                    cwd, commands, nops >>

\* read_annotation_csv called in one of the surroundings envs
ReadAnnotationCsvIn(envs) ==
    \E push_to_gitlab \in BOOLEAN, env \in envs :
        LET done == read_annotation_csv(Self, csv_file, push_to_gitlab, cwd, env)
        IN  /\ Call([ op |-> "read_annotation_csv",
                      push_to_gitlab |-> push_to_gitlab,
                      env |-> env, pre_cwd |-> cwd, pre_commands |-> commands ])
            /\ annotations' = done.self.annotations
            /\ df' = done.self.df
            /\ result' = done.result
            /\ cwd' = done.cwd
            /\ commands' = commands \o done.commands
            /\ UNCHANGED << fs, csv_file, csv_origin >>

\* read_annotation_csv where git works and updates are stored
ReadAnnotationCsv == ReadAnnotationCsvIn({ Healthy })

----------------------------------------------------------------------------
(* Stores *)

\* every property mapping over names with values from valueLists
PropMaps(names, valueLists) == UNION { [ S -> valueLists ] : S \in SUBSET names }

\* one partition file
PageFile(name, records) == [ name |-> name, records |-> records ]

NormValueLists == { <<>>, << << "a" >>, << "b" >> >> }

\* the stores of n records held in one partition file
NormStores(n) ==
    { << PageFile("f1", [ i \in 1..n |->
                            RawRecord(Uuid(i), "T1", f[i][1], f[i][2]) ]) >> :
        f \in [ 1..n -> (0..1) \X PropMaps(NormNames, NormValueLists) ] }

InitObject ==
    /\ obj = "none"
    /\ annotations = <<>>
    /\ df = Unset
    /\ csv_file = NoFile
    /\ csv_origin = NoOrigin
    /\ result = NoResult
    /\ last = [ op |-> "none" ]
    /\ pre_annotations = <<>>
    /\ pre_df = Unset
    /\ cwd = start_directory
    /\ commands = <<>>
    /\ nops = 0

InitNorm ==
    /\ header_exists \in BOOLEAN
    /\ annotations_isdir \in BOOLEAN
    /\ IF annotations_isdir
       THEN \E n \in 0..MaxAnn : page_files \in NormStores(n)
       ELSE page_files = <<>>
    /\ InitObject

NextNorm == AnnotationCollection

SpecNorm == InitNorm /\ [][NextNorm]_vars

LifeValueLists == { <<>>, << << "a" >>, << "b" >> >> }
CsvValueLists ==
    { <<>>, << << "a" >>, << "b" >> >>, << << "a", ",", "b" >> >>, << << "1" >> >> }

\* the stores of n records in one partition file, already in document order
Stores(n, valueLists) ==
    { << PageFile("f1", [ i \in 1..n |->
                            RawRecord(Uuid(i), f[i][1], i - 1, f[i][2]) ]) >> :
        f \in [ 1..n -> Tags \X PropMaps(PropNames, valueLists) ] }

InitStore(valueLists) ==
    /\ header_exists = TRUE
    /\ annotations_isdir \in BOOLEAN
    /\ IF annotations_isdir
       THEN \E n \in 0..MaxRecs : page_files \in Stores(n, valueLists)
       ELSE page_files = <<>>
    /\ InitObject

Init == InitStore(LifeValueLists)

Next ==
    \/ AnnotationCollection
    \/ AnnotateProperties
    \/ RenamePropertyValue
    \/ DeleteProperties
    \/ DuplicateByProp
    \/ WriteAnnotationCsv
    \/ ReadAnnotationCsv

Spec == Init /\ [][Next]_vars

InitCsv == InitStore(CsvValueLists)

NextCsv ==
    \/ AnnotationCollection
    \/ WriteAnnotationCsv
    \/ EditCsv
    \/ ReadAnnotationCsv

SpecCsv == InitCsv /\ [][NextCsv]_vars

----------------------------------------------------------------------------
(* Properties of the normalizer and of construction *)

\* the 'properties' column the normalizer is given for the store's records
LoadedItems ==
    LET ans == sorted(load_annotations(page_files))
    IN  [ i \in 1..Len(ans) |-> ans[i].properties ]

DynamicColumns(frame) == { c \in Range(frame.columns) : IsPropCol(c) }

\* C1: in split_property_dict_to_column, once the annotation of index i
\* (0-based) is processed every known property has a list of exactly i+1 values;
\* at the end every dynamic column is as long as the annotation sequence, which
\* is the row count of the table (pandas would refuse a ragged column).
C1_ColumnParity ==
    /\ \A n \in 0..Len(LoadedItems) :
          LET properties_dict == SplitLoop(LoadedItems, n)
          IN  \A k \in Range(properties_dict.keys) :
                  Len(properties_dict.vals[k]) = n
    /\ ~(IsRaised(result) /\ result.raised = "ValueError")
    /\ (obj = "constructed" /\ annotations_isdir) =>
          /\ df.nrows = Len(annotations)
          /\ \A c \in DynamicColumns(df) : Len(df.data[c]) = Len(annotations)

\* a property first met at index 2 (two rows backfilled) and another one met at
\* index 0 and absent afterwards (padded twice)
C1_Witness ==
    /\ obj = "constructed"
    /\ Len(annotations) = 3
    /\ PropX \notin DOMAIN annotations[1].properties
    /\ PropX \notin DOMAIN annotations[2].properties
    /\ PropX \in DOMAIN annotations[3].properties
    /\ PropP \in DOMAIN annotations[1].properties
    /\ PropP \notin DOMAIN annotations[2].properties
    /\ PropP \notin DOMAIN annotations[3].properties
    /\ Len(df.data[PropCol(PropX)]) = 3
    /\ Len(df.data[PropCol(PropP)]) = 3

UsedProps(ans) == UNION { DOMAIN ans[i].properties : i \in 1..Len(ans) }

\* the cell ac_to_df is to hold for annotation a in fixed column c
FixedCell(a, c) ==
    IF c \in { Col("left_context"), Col("annotation"), Col("right_context") }
    THEN clean_text_in_ac_df(BaseCell(a, c))
    ELSE BaseCell(a, c)

\* C2: the table ac_to_df builds has exactly one column prop:<p> for each
\* property name p used by some annotation and no other dynamic column; row i
\* holds annotation i's own values of p (an empty list included), or ['nan'] when
\* annotation i lacks p, next to annotation i's fixed columns.
C2_PropertyColumns ==
    (obj = "constructed" /\ annotations_isdir) =>
        /\ DynamicColumns(df) = { PropCol(p) : p \in UsedProps(annotations) }
        /\ Cardinality(Range(df.columns)) = Len(df.columns)
        /\ df.nrows = Len(annotations)
        /\ \A i \in 1..Len(annotations) :
              /\ \A p \in UsedProps(annotations) :
                    df.data[PropCol(p)][i] =
                        IF p \in DOMAIN annotations[i].properties
                        THEN annotations[i].properties[p]
                        ELSE << NAN >>
              /\ \A c \in Range(df.columns) \ DynamicColumns(df) :
                    df.data[c][i] = FixedCell(annotations[i], c)

\* the store lists the later annotation first; one annotation declares x with no
\* value, another one lacks x
C2_Witness ==
    /\ obj = "constructed"
    /\ Len(annotations) = 3
    /\ page_files[1].records[1].start_point = 1
    /\ annotations[1].start_point = 0
    /\ annotations[1].uuid = Uuid(2)
    /\ PropX \in DOMAIN annotations[1].properties
    /\ annotations[1].properties[PropX] = <<>>
    /\ df.data[PropCol(PropX)][1] = <<>>
    /\ PropX \notin DOMAIN annotations[2].properties
    /\ df.data[PropCol(PropX)][2] = << NAN >>
    /\ PropP \in DOMAIN annotations[3].properties
    /\ df.data[PropCol(PropP)][3] = << << "a" >>, << "b" >> >>

\* C7: a collection with header.json and no annotations/ directory has zero
\* annotations and a table of zero rows whose columns are the eleven fixed
\* columns, the columns ac_to_df gives for no annotation.
C7_EmptyCollectionColumns ==
    (obj = "constructed" /\ header_exists /\ ~annotations_isdir) =>
        /\ annotations = <<>>
        /\ df.nrows = 0
        /\ df.columns = << Col("document"), Col("annotation collection"),
                           Col("annotator"), Col("tag"), Col("tag_path"),
                           Col("left_context"), Col("annotation"),
                           Col("right_context"), Col("start_point"),
                           Col("end_point"), Col("date") >>
        /\ df.columns = ac_to_df(<<>>).columns

\* C8: without header.json construction raises FileNotFoundError, whose message
\* names the collection's path and gives the hint, and builds no collection; a
\* missing annotations/ directory never makes construction fail.
C8_HeaderNotFound ==
    /\ (last.op = "__init__" /\ ~header_exists) =>
          /\ obj = "failed"
          /\ IsRaised(result)
          /\ result.raised = "FileNotFoundError"
          /\ Contains(result.message, directory)
          /\ Contains(result.message,
                      "--> Make sure the CATMA project clone worked properly.")
          /\ annotations = <<>>
          /\ df = Unset
    /\ (last.op = "__init__" /\ header_exists /\ ~annotations_isdir) =>
          /\ obj = "constructed"
          /\ ~IsRaised(result)

\* construction was tried on a store that has records and no header.json
C8_Witness ==
    /\ last.op = "__init__"
    /\ ~header_exists
    /\ annotations_isdir
    /\ page_files # <<>>
    /\ obj = "failed"
    /\ IsRaised(result)

----------------------------------------------------------------------------
(* Properties of the calls on a constructed collection *)

\* self.annotations as construction left it
ConstructedAnnotations ==
    IF annotations_isdir THEN sorted(load_annotations(page_files)) ELSE <<>>

\* self.df as construction left it
ConstructedTable ==
    IF annotations_isdir THEN ac_to_df(ConstructedAnnotations)
    ELSE EmptyFrame(df_columns)

\* C3: annotate_properties, rename_property_value, delete_properties and
\* read_annotation_csv change annotations only: after any sequence of calls
\* self.df is the table built at construction, the annotations are the same
\* ones in the same order, and the table has one row per annotation.
C3_TableUntouched ==
    obj = "constructed" =>
        /\ df = ConstructedTable
        /\ Len(annotations) = Len(ConstructedAnnotations)
        /\ \A i \in 1..Len(annotations) :
              annotations[i].uuid = ConstructedAnnotations[i].uuid
        /\ annotations_isdir => df.nrows = Len(annotations)

\* two mutations were applied and a cell of the table no longer shows the
\* annotation's values
C3_Witness ==
    /\ obj = "constructed"
    /\ nops = 2
    /\ last.op \in { "annotate_properties", "rename_property_value",
                     "delete_properties" }
    /\ annotations # pre_annotations
    /\ pre_annotations # ConstructedAnnotations
    /\ \E i \in 1..Len(annotations) :
          /\ PropCol(PropX) \in Range(df.columns)
          /\ PropX \in DOMAIN annotations[i].properties
          /\ df.data[PropCol(PropX)][i] # annotations[i].properties[PropX]

\* the property a duplicate_by_prop argument names: the column name without
\* its prefix, or the bare name
ArgProperty(prop) == IF Head(prop) = "prop:" THEN Tail(prop) ELSE prop

\* C6 as claimed: whatever mutations came before, duplicate_by_prop of a
\* property no annotation of the collection has raises ValueError, and its
\* message lists only properties the annotations have.
C6_Original ==
    (last.op = "duplicate_by_prop"
        /\ ArgProperty(last.prop) \notin UsedProps(annotations)) =>
        /\ IsRaised(result)
        /\ result.raised = "ValueError"
        /\ Range(result.prop_cols) \subseteq UsedProps(annotations)

\* C6 amended: duplicate_by_prop of a name that is no column of the table raises
\* ValueError, and its message lists the properties of the table's prop:
\* columns, which are the properties the annotations had at construction (a
\* 'prop:' inside a property's own name is removed with the prefix).
C6_ListsTableProperties ==
    (last.op = "duplicate_by_prop"
        /\ last.prop \notin Range(ConstructedTable.columns)) =>
        /\ IsRaised(result)
        /\ result.raised = "ValueError"
        /\ Range(result.prop_cols) =
               { Replace(p, "prop:") : p \in UsedProps(ConstructedAnnotations) }
        /\ Len(result.prop_cols) = Cardinality(UsedProps(ConstructedAnnotations))

\* x was deleted from every annotation, and the error of a later
\* duplicate_by_prop still lists it
C6_Witness ==
    /\ last.op = "duplicate_by_prop"
    /\ last.prop = PropCol(<< "z" >>)
    /\ IsRaised(result)
    /\ PropX \in Range(result.prop_cols)
    /\ PropX \notin UsedProps(annotations)
    /\ PropX \in UsedProps(ConstructedAnnotations)

RECURSIVE ValuesBefore(_, _, _)
\* the number of values the cells of column c hold in the rows before row i
ValuesBefore(frame, c, i) ==
    IF i <= 1 THEN 0
    ELSE ValuesBefore(frame, c, i - 1) + Len(frame.data[c][i - 1])

\* C9: duplicate_by_prop(P) returns a table in which a row whose P cell holds N
\* values has become N rows, one per value, equal to the row in every other
\* column; self.df is the same after the call.
C9_DuplicateRows ==
    (last.op = "duplicate_by_prop" /\ ~IsRaised(result)) =>
        LET P == last.prop
            dup == result.returned
        IN  /\ df = pre_df
            /\ dup.columns = df.columns
            /\ dup.nrows = ValuesBefore(df, P, df.nrows + 1)
            /\ \A c \in Range(df.columns) : Len(dup.data[c]) = dup.nrows
            /\ \A i \in 1..df.nrows :
                  \A k \in 1..Len(df.data[P][i]) :
                      LET j == ValuesBefore(df, P, i) + k
                      IN  /\ dup.data[P][j] = df.data[P][i][k]
                          /\ \A c \in Range(df.columns) \ { P } :
                                dup.data[c][j] = df.data[c][i]

\* a row with two values became two rows and a row with no value became none
C9_Witness ==
    /\ last.op = "duplicate_by_prop"
    /\ ~IsRaised(result)
    /\ df.nrows = 2
    /\ Len(df.data[last.prop][1]) = 2
    /\ Len(df.data[last.prop][2]) = 0
    /\ result.returned.nrows = 2
    /\ result.returned.data[last.prop][1] = << "a" >>
    /\ result.returned.data[last.prop][2] = << "b" >>
    /\ result.returned.data[Col("start_point")] = << 0, 0 >>

\* the annotation holds old_value for prop under tag
HoldsValue(an, tag, prop, old_value) ==
    /\ an.tag.name = tag
    /\ prop \in DOMAIN an.properties
    /\ old_value \in Range(an.properties[prop])

\* C10: rename_property_value changes exactly the annotations under the tag
\* that hold old_value for prop: there old_value becomes new_value and the other
\* values stay; every other annotation keeps all its values; as many annotations
\* change as held old_value under the tag (none when new_value is old_value:
\* the value is then replaced by itself).
C10_RenameExact ==
    last.op = "rename_property_value" =>
        /\ Len(annotations) = Len(pre_annotations)
        /\ \A i \in 1..Len(annotations) :
              LET before == pre_annotations[i]
                  after == annotations[i]
              IN  IF HoldsValue(before, last.tag, last.prop, last.old_value)
                  THEN /\ DOMAIN after.properties = DOMAIN before.properties
                       /\ \A p \in DOMAIN before.properties \ { last.prop } :
                             after.properties[p] = before.properties[p]
                       /\ Len(after.properties[last.prop]) =
                              Len(before.properties[last.prop])
                       /\ \A k \in 1..Len(before.properties[last.prop]) :
                             after.properties[last.prop][k] =
                                 IF before.properties[last.prop][k] = last.old_value
                                 THEN last.new_value
                                 ELSE before.properties[last.prop][k]
                       /\ [ after EXCEPT !.properties = before.properties ] = before
                  ELSE after = before
        /\ Cardinality({ i \in 1..Len(annotations) :
                            annotations[i] # pre_annotations[i] })
           = IF last.new_value = last.old_value THEN 0
             ELSE Cardinality({ i \in 1..Len(pre_annotations) :
                      HoldsValue(pre_annotations[i], last.tag, last.prop,
                                 last.old_value) })

\* the second annotation, under T1, had a renamed to c and kept b; the first
\* one holds a under T2 and kept it
C10_Witness ==
    /\ last.op = "rename_property_value"
    /\ last.tag = "T1"
    /\ last.prop = PropX
    /\ last.old_value = << "a" >>
    /\ last.new_value = << "c" >>
    /\ Len(annotations) = 2
    /\ Len(pre_annotations) = 2
    /\ pre_annotations[1].tag.name = "T2"
    /\ PropX \in DOMAIN pre_annotations[1].properties
    /\ PropX \in DOMAIN pre_annotations[2].properties
    /\ pre_annotations[1].properties[PropX] = << << "a" >>, << "b" >> >>
    /\ annotations[1] = pre_annotations[1]
    /\ pre_annotations[2].tag.name = "T1"
    /\ pre_annotations[2].properties[PropX] = << << "a" >>, << "b" >> >>
    /\ annotations[2].properties[PropX] = << << "c" >>, << "b" >> >>

----------------------------------------------------------------------------
(* Properties of the CSV export and import *)

\* the position in ans of the annotation with this uuid (0 when there is none)
IndexOf(ans, uuid) ==
    IF \E i \in 1..Len(ans) : ans[i].uuid = uuid
    THEN CHOOSE i \in 1..Len(ans) : ans[i].uuid = uuid
    ELSE 0

\* C4: after write_annotation_csv(tags='all', property='all',
\* only_missing_prop_values=False) and read_annotation_csv of the unmodified
\* file, every exported row with a non-empty values field finds its annotation
\* holding, for the row's property, the value sequence it was exported with.
C4_RoundTrip ==
    (/\ last.op = "read_annotation_csv"
     /\ ~IsRaised(result)
     /\ csv_origin.exported
     /\ ~csv_origin.edited
     /\ csv_origin.tags.all
     /\ csv_origin.property = ALL
     /\ ~csv_origin.only_missing_prop_values) =>
        \A r \in 1..Len(csv_file.rows) :
            csv_file.rows[r].values # <<>> =>
                LET i == IndexOf(annotations, csv_file.rows[r].id)
                    prop == csv_file.rows[r].property
                IN  /\ i # 0
                    /\ prop \in DOMAIN annotations[i].properties
                    /\ annotations[i].properties[prop] =
                           csv_origin.annotations[i].properties[prop]

\* the rows C5 counts as updated: identifier known, values field not empty
C5_UpdatedRows(ans, rows) ==
    { r \in 1..Len(rows) : IndexOf(ans, rows[r].id) # 0 /\ rows[r].values # <<>> }

RECURSIVE C5_Expected(_, _, _)
\* the annotations once every row from r on that counts as updated has applied
\* set_property_values with its values split on commas
C5_Expected(ans, rows, r) ==
    IF r > Len(rows) THEN ans
    ELSE IF r \in C5_UpdatedRows(ans, rows)
    THEN C5_Expected(
             [ i \in 1..Len(ans) |->
                 IF ans[i].uuid = rows[r].id
                 THEN set_property_values(ans[i], rows[r].tag, rows[r].property,
                                          Split(rows[r].values, ","))
                 ELSE ans[i] ],
             rows, r + 1)
    ELSE C5_Expected(ans, rows, r + 1)

\* C5: read_annotation_csv does not raise for a row with an unknown identifier
\* or an empty values field; it counts each row once, as updated exactly when
\* the identifier is known and the values field is not empty, as missed
\* otherwise, and only the updated rows change an annotation.
C5_SoftFailures ==
    (last.op = "read_annotation_csv" /\ csv_file.exists /\ csv_file.columns # <<>>) =>
        /\ ~IsRaised(result)
        /\ result.annotation_counter =
               Cardinality(C5_UpdatedRows(pre_annotations, csv_file.rows))
        /\ result.missed_annotation_counter =
               Len(csv_file.rows)
                   - Cardinality(C5_UpdatedRows(pre_annotations, csv_file.rows))
        /\ annotations = C5_Expected(pre_annotations, csv_file.rows, 1)

----------------------------------------------------------------------------
(* Token counting: most_common_token *)

MaxTexts == 2   \* texts in the column handed to most_common_token
MaxText == 3    \* characters of one text
MaxRank == 2    \* largest ranking asked for

\* string.punctuation (the tokens "dquote" and "backquote" stand for the double
\* quote and the backquote, which a TLA+ string cannot hold)
punctuation ==
    { "!", "dquote", "#", "$", "%", "&", "'", "(", ")", "*", "+", ",", "-", ".",
      "/", ":", ";", "<", "=", ">", "?", "@", "[", "\\", "]", "^", "_", "backquote",
      "{", "|", "}", "~" }

\* str_item.translate(str.maketrans('', '', deletechars))
translate(str_item, deletechars) ==
    SelectSeq(str_item, LAMBDA ch : ch \notin deletechars)

RECURSIVE ExtendTokens(_)
\* for str_item in annotation_col: token_list.extend(... .split(' '))
ExtendTokens(annotation_col) ==
    IF annotation_col = <<>> THEN <<>>
    ELSE Split(translate(Head(annotation_col), punctuation), " ")
         \o ExtendTokens(Tail(annotation_col))

\* while '' in token_list: token_list.remove('')
RemoveEmpty(token_list) == SelectSeq(token_list, LAMBDA token : token # <<>>)

\* stopwords=None, and stopwords given as a list
NoStopwords == [ given |-> FALSE, words |-> <<>> ]
StopwordList(words) == [ given |-> TRUE, words |-> words ]

\* if stopwords: token_list = [token for token in token_list if token not in stopwords]
DropStopwords(token_list, stopwords) ==
    IF stopwords.given /\ stopwords.words # <<>>
    THEN SelectSeq(token_list, LAMBDA token : token \notin Range(stopwords.words))
    ELSE token_list

RECURSIVE Counter(_)
\* collections.Counter(token_list): entries in first-encountered order
Counter(token_list) ==
    IF token_list = <<>> THEN <<>>
    ELSE LET before == Counter(SubSeq(token_list, 1, Len(token_list) - 1))
             token == token_list[Len(token_list)]
         IN  IF \E i \in 1..Len(before) : before[i].token = token
             THEN [ i \in 1..Len(before) |->
                      IF before[i].token = token
                      THEN [ before[i] EXCEPT !.count = @ + 1 ]
                      ELSE before[i] ]
             ELSE Append(before, [ token |-> token, count |-> 1 ])

RECURSIVE InsertByCount_unstable(_, _)
\* a ranking that puts an entry before the entries of equal count
InsertByCount_unstable(ranked, entry) ==
    IF ranked = <<>> THEN << entry >>
    ELSE IF entry.count >= Head(ranked).count THEN << entry >> \o ranked
    ELSE << Head(ranked) >> \o InsertByCount_unstable(Tail(ranked), entry)

RECURSIVE InsertByCount(_, _)
\* descending by count, an entry after the entries of equal count
InsertByCount(ranked, entry) ==
    IF ranked = <<>> THEN << entry >>
    ELSE IF entry.count > Head(ranked).count THEN << entry >> \o ranked
    ELSE << Head(ranked) >> \o InsertByCount(Tail(ranked), entry)

RECURSIVE SortByCount(_)
\* sorted(counter.items(), key=itemgetter(1), reverse=True): stable
SortByCount(entries) ==
    IF entries = <<>> THEN <<>>
    ELSE InsertByCount(SortByCount(SubSeq(entries, 1, Len(entries) - 1)),
                       entries[Len(entries)])

\* Counter.most_common(n), n an int: heapq.nlargest(n, ...) is sorted(...)[:n]
\* for n > 0 and empty otherwise
most_common(counter, n) ==
    LET ranked == SortByCount(counter)
    IN  IF n <= 0 THEN <<>>
        ELSE SubSeq(ranked, 1, IF n < Len(ranked) THEN n ELSE Len(ranked))

\* most_common_token(annotation_col, stopwords, ranking): the dict as the
\* sequence of its items
most_common_token(annotation_col, stopwords, ranking) ==
    most_common(
        Counter(DropStopwords(RemoveEmpty(ExtendTokens(annotation_col)), stopwords)),
        ranking)

TextChars == { "a", "b", " ", "." }

RECURSIVE SeqsUpTo(_, _)
\* the sequences over S of length at most n
SeqsUpTo(S, n) ==
    IF n = 0 THEN { <<>> }
    ELSE LET shorter == SeqsUpTo(S, n - 1)
         IN  shorter \cup { Append(q, x) : q \in shorter, x \in S }

Texts == SeqsUpTo(TextChars, MaxText)
StopwordArgs ==
    { NoStopwords, StopwordList(<<>>), StopwordList(<< << "a" >> >>),
      StopwordList(<< << "b" >>, << "a", "." >> >>) }

\* a call of the module-level function most_common_token
MostCommonToken ==
    /\ last.op = "none"
    /\ \E annotation_col \in SeqsUpTo(Texts, MaxTexts), stopwords \in StopwordArgs,
          ranking \in 0..MaxRank :
          /\ last' = [ op |-> "most_common_token", annotation_col |-> annotation_col,
                       stopwords |-> stopwords, ranking |-> ranking ]
          /\ result' = Return(most_common_token(annotation_col, stopwords, ranking))
    /\ UNCHANGED << fs, obj, annotations, df, csv_file, csv_origin,
                    pre_annotations, pre_df, cwd, commands, nops >>

InitTokens ==
    /\ header_exists = FALSE
    /\ annotations_isdir = FALSE
    /\ page_files = <<>>
    /\ InitObject

NextTokens == MostCommonToken

SpecTokens == InitTokens /\ [][NextTokens]_vars

----------------------------------------------------------------------------
(* Properties of the token counting *)

\* the occurrences of tokens in the texts: <<k, i, j>> when characters i..j of
\* text k without its punctuation form a maximal run free of spaces
Occurrences(annotation_col) ==
    { o \in (1..Len(annotation_col)) \X (1..MaxText) \X (1..MaxText) :
        LET s == translate(annotation_col[o[1]], punctuation)
        IN  /\ o[2] <= o[3]
            /\ o[3] <= Len(s)
            /\ \A k \in o[2]..o[3] : s[k] # " "
            /\ (o[2] = 1 \/ s[o[2] - 1] = " ")
            /\ (o[3] = Len(s) \/ s[o[3] + 1] = " ") }

\* the token of an occurrence
TokenAt(annotation_col, o) ==
    SubSeq(translate(annotation_col[o[1]], punctuation), o[2], o[3])

\* occurrence o comes before occurrence q in reading order
Earlier(o, q) == o[1] < q[1] \/ (o[1] = q[1] /\ o[2] < q[2])

\* C11: most_common_token returns the counts of the tokens left after stripping
\* punctuation, splitting on single spaces, dropping empty tokens and
\* stopwords: each count is the token's number of occurrences, the entries are
\* in descending count with ties in first-encountered order, and they are the
\* first min(n, number of distinct tokens) of that ranking.
C11_TokenRanking ==
    last.op = "most_common_token" =>
        LET col == last.annotation_col
            stop == Range(last.stopwords.words)
            occ == { o \in Occurrences(col) : TokenAt(col, o) \notin stop }
            tokens == { TokenAt(col, o) : o \in occ }
            Count(t) == Cardinality({ o \in occ : TokenAt(col, o) = t })
            First(t) == CHOOSE o \in occ :
                            /\ TokenAt(col, o) = t
                            /\ \A q \in occ : TokenAt(col, q) = t /\ q # o
                                                => Earlier(o, q)
            Before(t, u) == \/ Count(t) > Count(u)
                            \/ Count(t) = Count(u) /\ Earlier(First(t), First(u))
            r == result.returned
        IN  /\ Len(r) = IF last.ranking < Cardinality(tokens)
                        THEN last.ranking ELSE Cardinality(tokens)
            /\ \A i \in 1..Len(r) :
                  /\ r[i].token \in tokens
                  /\ r[i].count = Count(r[i].token)
            /\ \A i, j \in 1..Len(r) : i < j => Before(r[i].token, r[j].token)
            /\ \A t \in tokens :
                  (\A i \in 1..Len(r) : r[i].token # t) =>
                      \A i \in 1..Len(r) : Before(r[i].token, t)

\* two texts, a stopword and punctuation dropped, a tie settled by the first
\* encounter and a token cut off by the ranking
C11_Witness ==
    /\ last.op = "most_common_token"
    /\ last.annotation_col = << << "b", ".", " " >>, << "a", " ", "b" >> >>
    /\ last.stopwords = NoStopwords
    /\ last.ranking = 1
    /\ result.returned = << [ token |-> << "b" >>, count |-> 2 ] >>

----------------------------------------------------------------------------
(* Filtering the table by tag path: filter_by_tag_path *)

MaxPattern == 2     \* characters of a path_element

\* the characters of a token: a tag name is written out, a character is itself
TokenChars(tok) ==
    IF tok = "T1" THEN << "T", "1" >>
    ELSE IF tok = "T2" THEN << "T", "2" >>
    ELSE << tok >>

RECURSIVE Characters(_)
\* a string, token by token, as the sequence of its characters
Characters(s) ==
    IF s = <<>> THEN <<>> ELSE TokenChars(Head(s)) \o Characters(Tail(s))

\* re.compile(pat): of the characters used here "(" opens a group that is never
\* closed, "." is a wildcard, every other character stands for itself
CompileFails(pat) == Contains(pat, "(")

\* pat.match at position k of x: "." matches any character except a newline
MatchesAt(pat, x, k) ==
    /\ k + Len(pat) - 1 <= Len(x)
    /\ \A j \in 1..Len(pat) :
          \/ pat[j] = "." /\ x[k + j - 1] # "\n"
          \/ pat[j] # "." /\ pat[j] = x[k + j - 1]

\* re.compile(pat).search(x) is not None
re_search(pat, x) == \E k \in 1..(Len(x) + 1) : MatchesAt(pat, x, k)

\* Python: pat in x, for whole strings
IsSubstring(pat, x) ==
    \E k \in 1..(Len(x) + 1) :
        /\ k + Len(pat) - 1 <= Len(x)
        /\ \A j \in 1..Len(pat) : pat[j] = x[k + j - 1]

\* Series.str.contains(pat): case=True, regex=True by default
str_contains(column, pat) ==
    IF CompileFails(pat)
    THEN Raise("re.error", << "missing ), unterminated subpattern" >>)
    ELSE Return([ i \in 1..Len(column) |-> re_search(pat, Characters(column[i])) ])

RECURSIVE Positions(_, _)
\* the positions i..Len(mask) where mask is True, in order
Positions(mask, i) ==
    IF i > Len(mask) THEN <<>>
    ELSE IF mask[i] THEN << i >> \o Positions(mask, i + 1)
    ELSE Positions(mask, i + 1)

\* frame[mask]: the rows where mask is True, in table order
SelectRows(frame, mask) ==
    LET keep == Positions(mask, 1)
    IN  [ columns |-> frame.columns,
          nrows |-> Len(keep),
          data |-> [ c \in Range(frame.columns) |->
                       [ k \in 1..Len(keep) |-> frame.data[c][keep[k]] ] ] ]

\* AnnotationCollection.filter_by_tag_path(path_element)
filter_by_tag_path(self, path_element) ==
    LET mask == str_contains(self.df.data[Col("tag_path")], path_element)
    IN  IF IsRaised(mask) THEN mask
        ELSE Return(SelectRows(self.df, mask.returned))

PatternChars == { "T", "t", "1", ".", "(" }
PathElements == SeqsUpTo(PatternChars, MaxPattern)

FilterByTagPath ==
    \E path_element \in PathElements :
        /\ Call([ op |-> "filter_by_tag_path", path_element |-> path_element ])
        /\ result' = filter_by_tag_path(Self, path_element)
        /\ UNCHANGED << fs, annotations, df, csv_file, csv_origin, cwd, commands >>

InitFilter == InitStore(LifeValueLists)

NextFilter ==
    \/ AnnotationCollection
    \/ FilterByTagPath

SpecFilter == InitFilter /\ [][NextFilter]_vars

----------------------------------------------------------------------------
(* Properties of the tag-path filter *)

\* C12: filter_by_tag_path(s) returns, for every string s, the rows of the table
\* whose full tag path contains s as a literal, case-sensitive substring, all
\* of them and no others, in table order, and leaves the table unchanged.
C12_LiteralFilter ==
    last.op = "filter_by_tag_path" =>
        /\ ~IsRaised(result)
        /\ result.returned =
               SelectRows(pre_df,
                   [ i \in 1..pre_df.nrows |->
                       IsSubstring(last.path_element,
                                   Characters(pre_df.data[Col("tag_path")][i])) ])
        /\ df = pre_df

----------------------------------------------------------------------------
(* Loading a store of several partition files *)

MaxFileRecs == 3    \* records in a store of two partition files

\* the records of recs that the assignment puts into the file name
RecordsIn(recs, assignment, name) ==
    LET keep == Positions([ i \in 1..Len(recs) |-> assignment[i] = name ], 1)
    IN  [ k \in 1..Len(keep) |-> recs[keep[k]] ]

\* the stores of n records spread over the partition files f1 and f2, in either
\* order of os.listdir; two records may start at the same offset
FileStores(n) ==
    UNION { { << PageFile("f1", RecordsIn(recs, g, "f1")),
                 PageFile("f2", RecordsIn(recs, g, "f2")) >>,
              << PageFile("f2", RecordsIn(recs, g, "f2")),
                 PageFile("f1", RecordsIn(recs, g, "f1")) >> } :
            recs \in { [ i \in 1..n |-> RawRecord(Uuid(i), "T1", f[i], EmptyProps) ] :
                          f \in [ 1..n -> 0..1 ] },
            g \in [ 1..n -> { "f1", "f2" } ] }

InitLoad ==
    /\ header_exists = TRUE
    /\ annotations_isdir = TRUE
    /\ \E n \in 0..MaxFileRecs : page_files \in FileStores(n)
    /\ InitObject

NextLoad == AnnotationCollection

SpecLoad == InitLoad /\ [][NextLoad]_vars

----------------------------------------------------------------------------
(* Properties of loading *)

\* the enumerations of the same partition files in another order
Enumerations(files) ==
    { [ i \in 1..Len(files) |-> files[p[i]] ] :
        p \in { q \in [ 1..Len(files) -> 1..Len(files) ] :
                  \A i, j \in 1..Len(files) : q[i] = q[j] => i = j } }

\* C13, the part about content and order: one annotation per record of every
\* partition file, in non-decreasing order of the Annotation comparison, and
\* the table rows in that stored order.
C13_SortedLoad ==
    (last.op = "__init__" /\ obj = "constructed" /\ annotations_isdir) =>
        /\ \A k \in 1..Len(page_files) : \A j \in 1..Len(page_files[k].records) :
              Cardinality({ i \in 1..Len(annotations) :
                  annotations[i] =
                      Annotation(page_files[k].records[j], page_files[k].name) }) = 1
        /\ \A i \in 1..Len(annotations) :
              \E k \in 1..Len(page_files) : \E j \in 1..Len(page_files[k].records) :
                  annotations[i] =
                      Annotation(page_files[k].records[j], page_files[k].name)
        /\ \A i, j \in 1..Len(annotations) :
              i < j => ~annotation_lt(annotations[j], annotations[i])
        /\ df.nrows = Len(annotations)
        /\ \A i \in 1..Len(annotations) :
              \A c \in Range(df.columns) :
                  ~IsPropCol(c) => df.data[c][i] = FixedCell(annotations[i], c)

----------------------------------------------------------------------------
(* Version control: push_annotations *)

\* the three commands of push_annotations, run in directory where
PushCommands(where, commit_message) ==
    << [ argv |-> << "git", "add", "." >>, cwd |-> where ],
       [ argv |-> << "git", "commit", "-m", commit_message >>, cwd |-> where ],
       [ argv |-> << "git", "push", "origin", "master" >>, cwd |-> where ] >>

\* a push_annotations that gives up, silently, after a command that failed
push_annotations_until_failure(self, commit_message, start, env) ==
    LET where == projects_directory \o directory
        cmds == PushCommands(where, commit_message)
        n == IF \E k \in 1..3 : env.run[k] # "exit 0"
             THEN CHOOSE k \in 1..3 :
                      env.run[k] # "exit 0" /\ \A j \in 1..(k - 1) : env.run[j] = "exit 0"
             ELSE 3
    IN  [ self |-> self,
          cwd |-> start,
          commands |-> [ k \in 1..n |-> [ argv |-> cmds[k].argv, cwd |-> where,
                                          outcome |-> env.run[k] ] ],
          result |-> NoResult ]

\* AnnotationCollection.push_annotations(commit_message) started in directory
\* start: cwd = os.getcwd(); os.chdir(...); three subprocess.run; os.chdir(cwd)
push_annotations(self, commit_message, start, env) ==
    LET where == projects_directory \o directory
        run == RunCommands(PushCommands(where, commit_message), env.run)
    IN  [ self |-> self,
          cwd |-> IF run.raised THEN where ELSE start,
          commands |-> run.invoked,
          result |-> IF run.raised
                     THEN Raise("FileNotFoundError", << "git" >>)
                     ELSE NoResult ]

CommitMessages == { "new annotations", "m" }

PushAnnotations ==
    \E commit_message \in CommitMessages, env \in Environments :
        LET done == push_annotations(Self, commit_message, cwd, env)
        IN  /\ Call([ op |-> "push_annotations", commit_message |-> commit_message,
                      env |-> env, pre_cwd |-> cwd, pre_commands |-> commands ])
            /\ annotations' = done.self.annotations
            /\ df' = done.self.df
            /\ result' = done.result
            /\ cwd' = done.cwd
            /\ commands' = commands \o done.commands
            /\ UNCHANGED << fs, csv_file, csv_origin >>

\* the stores of one record whose properties hold one value
SyncStores == Stores(1, { << << "a" >> >> })

InitSync ==
    /\ header_exists = TRUE
    /\ annotations_isdir = TRUE
    /\ page_files \in SyncStores
    /\ InitObject

NextSync ==
    \/ AnnotationCollection
    \/ WriteAnnotationCsv
    \/ PushAnnotations
    \/ ReadAnnotationCsvIn(Environments)

SpecSync == InitSync /\ [][NextSync]_vars

----------------------------------------------------------------------------
(* Properties of the version control calls *)

\* the commands invoked by the last call
Invoked == SubSeq(commands, Len(last.pre_commands) + 1, Len(commands))

C15_CwdRestored ==
    last.op \in { "push_annotations", "read_annotation_csv" } => cwd = last.pre_cwd
====
